---- MODULE Spec2Model ----
(***************************************************************************)
(* Inventory tracker: the items table, the five CRUD handlers and the      *)
(* tRPC procedures that validate an input and call a handler.              *)
(*                                                                         *)
(* A handler issues exactly one SQL statement, so one action is one call:  *)
(* the validation of the input, the statement, its effect on the table,    *)
(* and the value or error the caller gets.  After it the call is "done"    *)
(* and its outcome stands until the caller takes it ("idle").              *)
(*                                                                         *)
(* Encoding of JavaScript values:                                          *)
(*   - a field that may be left out (undefined) is a sequence: <<>> when   *)
(*     it is left out, <<v>> when it is sent with value v;                 *)
(*   - null is the string Null, which is no description of the model;      *)
(*   - a number on the wire is [w |-> whole, f |-> tenths], so that 1.5 is *)
(*     [w |-> 1, f |-> 5]; a number that reached a handler is an Int;      *)
(*   - a query's result array is the set of its rows (no order is asked    *)
(*     for), an Item | null return is a set of at most one row.            *)
(***************************************************************************)
EXTENDS Integers, Sequences, FiniteSets

VARIABLES
    items,          \* the rows of table items
    items_id_seq,   \* last value of the sequence behind the serial id
    now,            \* the database clock
    pc,             \* "done" while a call's outcome stands, else "idle"
    call,           \* the call: procedure, input, time it was made
    before,         \* the rows when the call's statement ran (history)
    result,         \* what the call gave its caller
    rawInput,       \* the input as the client sent it, before parsing
    race,           \* two calls in flight at once: the calls, the order they ran in
    app,            \* the state of the client's App component
    forms,          \* formData of the create form and of the edit form
    request         \* the client's request in flight and its response

clientVars == <<app, forms, request>>
vars == <<items, items_id_seq, now, pc, call, before, result, rawInput, race, clientVars>>

\* ---- bounds of the model ----
MaxSeq == 2         \* inserts attempted in a run
MaxClock == 1       \* clock values 0..MaxClock

Null == "<null>"
Names == {"a", "b"}
Descriptions == {Null, "", "d"}
Fields == {"name", "description", "quantity"}

\* ---- JavaScript values ----
Some(v) == <<v>>
Undefined == <<>>
Opt(S) == {Undefined} \cup {Some(v) : v \in S}

Number(w, f) == [w |-> w, f |-> f]
Whole(n) == Number(n, 0)

\* ---- table items ----
Row(id, name, description, quantity, created_at) ==
    [id |-> id, name |-> name, description |-> description,
     quantity |-> quantity, created_at |-> created_at]

\* seeded fault: the row's own name counts as taken
NameTaken_countsOwnRow(table, name, id) ==
    \E r \in table : r.name = name

\* seeded fault: the name column without its unique constraint
NameTaken_noConstraint(table, name, id) == FALSE

\* name text not null unique: another row already holds this name
NameTaken(table, name, id) ==
    \E r \in table : r.name = name /\ r.id # id

\* seeded fault: insert ... on conflict (name) do update
Insert_onConflictUpdate(table, id, t, values) ==
    LET row == Row(id, values.name, values.description, values.quantity, t)
        hit == {r \in table : r.name = row.name}
        new == {Row(r.id, r.name, row.description, row.quantity, r.created_at) : r \in hit}
    IN  IF hit # {}
        THEN [status |-> "ok", table |-> (table \ hit) \cup new, rows |-> new]
        ELSE [status |-> "ok", table |-> table \cup {row}, rows |-> {row}]

\* seeded fault: the id is one more than the largest id in the table, in place of
\* the sequence's next value
Insert_idFromLargest(table, id, t, values) ==
    LET ids == {r.id : r \in table}
        next == IF ids = {} THEN 1 ELSE 1 + CHOOSE m \in ids : \A n \in ids : n <= m
        row == Row(next, values.name, values.description, values.quantity, t)
    IN  IF NameTaken(table, row.name, row.id)
        THEN [status |-> "unique_violation", table |-> table, rows |-> {}]
        ELSE [status |-> "ok", table |-> table \cup {row}, rows |-> {row}]

\* insert into items (name, description, quantity) values (...) returning *
\* id is nextval of the sequence, created_at is now()
Insert(table, id, t, values) ==
    LET row == Row(id, values.name, values.description, values.quantity, t)
    IN  IF NameTaken(table, row.name, row.id)
        THEN [status |-> "unique_violation", table |-> table, rows |-> {}]
        ELSE [status |-> "ok", table |-> table \cup {row}, rows |-> {row}]

\* select * from items where id = ...
SelectById(table, id) == {r \in table : r.id = id}

\* a row with the columns of set overwritten
SetColumns(r, set) ==
    [c \in DOMAIN r |-> IF c \in DOMAIN set THEN set[c] ELSE r[c]]

\* seeded fault: on a name conflict the other columns are still written
Update_keepsOtherColumns(table, id, set) ==
    LET old == {r \in table : r.id = id}
        new == {SetColumns(r, set) : r \in old}
        rest == [c \in DOMAIN set \ {"name"} |-> set[c]]
    IN  IF \E r \in new : NameTaken(table, r.name, r.id)
        THEN [status |-> "unique_violation",
              table |-> (table \ old) \cup {SetColumns(r, rest) : r \in old},
              rows |-> {}]
        ELSE [status |-> "ok", table |-> (table \ old) \cup new, rows |-> new]

\* seeded fault: an upsert: when no row has the id and a name is set, a row with
\* the id is inserted, the columns not set taking their defaults
Update_upsert(table, id, set) ==
    LET old == SelectById(table, id)
        new == IF old = {} /\ "name" \in DOMAIN set
               THEN {SetColumns(Row(id, set.name, Null, 0, 0), set)}
               ELSE {SetColumns(r, set) : r \in old}
    IN  IF \E r \in new : NameTaken(table, r.name, r.id)
        THEN [status |-> "unique_violation", table |-> table, rows |-> {}]
        ELSE [status |-> "ok", table |-> (table \ old) \cup new, rows |-> new]

\* update items set ... where id = ... returning *
Update(table, id, set) ==
    LET old == SelectById(table, id)
        new == {SetColumns(r, set) : r \in old}
    IN  IF \E r \in new : NameTaken(table, r.name, r.id)
        THEN [status |-> "unique_violation", table |-> table, rows |-> {}]
        ELSE [status |-> "ok", table |-> (table \ old) \cup new, rows |-> new]

\* delete from items where id = ...
Delete(table, id) ==
    [status |-> "ok", table |-> table \ SelectById(table, id), rows |-> {}]

\* ---- what a caller gets ----
Returned(op, rows) ==
    [op |-> op, status |-> "ok", rows |-> rows, message |-> <<>>]

Thrown(op, status, message) ==
    [op |-> op, status |-> status, rows |-> {}, message |-> message]

\* the decimal digits of a natural number, as template literals print it
RECURSIVE Digits(_)
Digits(n) ==
    LET d == <<"0", "1", "2", "3", "4", "5", "6", "7", "8", "9">>[(n % 10) + 1]
    IN  IF n < 10 THEN <<d>> ELSE Digits(n \div 10) \o <<d>>

ToString(n) == IF n < 0 THEN <<"-">> \o Digits(-n) ELSE Digits(n)

\* `Item with ID ${id} not found.`
NotFoundMessage(id) == <<"Item with ID ">> \o ToString(id) \o <<" not found.">>

\* ---- handlers ----
\* what a handler call leaves: the table and what the caller gets
Outcome(table, r) == [items |-> table, result |-> r]

\* seeded fault: quantity is not passed to the insert, so the column default applies
createItem_defaultQuantity(table, id, t, input) ==
    LET out == Insert(table, id, t,
                      [name |-> input.name, description |-> input.description,
                       quantity |-> 0])
    IN  Outcome(out.table,
                IF out.status = "ok"
                THEN Returned("createItem", out.rows)
                ELSE Thrown("createItem", out.status, <<>>))

\* createItem: one insert (id is the sequence's next value, t the time of the
\* statement); a store error is logged and thrown again
createItem(table, id, t, input) ==
    LET out == Insert(table, id, t,
                      [name |-> input.name, description |-> input.description,
                       quantity |-> input.quantity])
    IN  Outcome(out.table,
                IF out.status = "ok"
                THEN Returned("createItem", out.rows)
                ELSE Thrown("createItem", out.status, <<>>))

\* seeded fault: rows whose quantity is 0 are left out
getItems_inStockOnly(table) ==
    Outcome(table, Returned("getItems", {r \in table : r.quantity > 0}))

\* getItems: every row
getItems(table) == Outcome(table, Returned("getItems", table))

\* seeded fault: description || null on the way out
getItemById_emptyAsNull(table, id) ==
    Outcome(table,
            Returned("getItemById",
                     {Row(r.id, r.name, IF r.description = "" THEN Null ELSE r.description,
                          r.quantity, r.created_at) : r \in SelectById(table, id)}))

\* getItemById: result[0], or null when the result is empty
getItemById(table, id) ==
    Outcome(table, Returned("getItemById", SelectById(table, id)))

\* seeded fault: if (name) / if (description) / if (quantity) in place of !== undefined
Truthy(f, v) == IF f = "quantity" THEN v # 0 ELSE v \notin {Null, ""}
updateFields_truthy(input) ==
    [c \in {f \in Fields : input[f] # Undefined /\ Truthy(f, input[f][1])} |-> input[c][1]]

\* seeded fault: description ?? null: a description left out is written as null
updateFields_descriptionOrNull(input) ==
    [c \in {f \in Fields : input[f] # Undefined} \cup {"description"} |->
        IF input[c] = Undefined THEN Null ELSE input[c][1]]

\* seeded fault: updateFields.created_at is set as well, to a later time
updateFields_touchesCreatedAt(input) ==
    [c \in {f \in Fields : input[f] # Undefined} \cup {"created_at"} |->
        IF c = "created_at" THEN MaxClock ELSE input[c][1]]

\* the columns updateItem sets: the fields of the input that are not undefined
updateFields(input) ==
    [c \in {f \in Fields : input[f] # Undefined} |-> input[c][1]]

\* seeded fault: the update is issued even when no field is sent ("No values to set")
updateItem_alwaysUpdates(table, input) ==
    LET set == updateFields(input)
        out == Update(table, input.id, set)
    IN  Outcome(out.table,
                IF DOMAIN set = {}
                THEN Thrown("updateItem", "no_values_to_set", <<>>)
                ELSE IF out.status # "ok"
                THEN Thrown("updateItem", out.status, <<>>)
                ELSE IF out.rows = {}
                THEN Thrown("updateItem", "not_found", NotFoundMessage(input.id))
                ELSE Returned("updateItem", out.rows))

\* seeded fault: the update's result is not checked for being empty
updateItem_noLengthCheck(table, input) ==
    LET set == updateFields(input)
        out == IF DOMAIN set = {}
               THEN [status |-> "ok", table |-> table,
                     rows |-> SelectById(table, input.id)]
               ELSE Update(table, input.id, set)
    IN  Outcome(out.table,
                IF out.status # "ok"
                THEN Thrown("updateItem", out.status, <<>>)
                ELSE IF out.rows = {} /\ DOMAIN set = {}
                THEN Thrown("updateItem", "not_found", NotFoundMessage(input.id))
                ELSE IF out.rows = {}
                THEN Thrown("updateItem", "type_error", <<>>)
                ELSE Returned("updateItem", out.rows))

\* updateItem: a select when no field is sent, else one update
updateItem(table, input) ==
    LET set == updateFields(input)
        out == IF DOMAIN set = {}
               THEN [status |-> "ok", table |-> table,
                     rows |-> SelectById(table, input.id)]
               ELSE Update(table, input.id, set)
    IN  Outcome(out.table,
                IF out.status # "ok"
                THEN Thrown("updateItem", out.status, <<>>)
                ELSE IF out.rows = {}
                THEN Thrown("updateItem", "not_found", NotFoundMessage(input.id))
                ELSE Returned("updateItem", out.rows))

\* seeded fault: rowCount = 0 throws in place of the warning
deleteItem_throwsWhenMissing(table, id) ==
    Outcome(Delete(table, id).table,
            IF SelectById(table, id) = {}
            THEN Thrown("deleteItem", "not_found", NotFoundMessage(id))
            ELSE Returned("deleteItem", {}))

\* deleteItem: one delete; rowCount = 0 is only logged
deleteItem(table, id) ==
    Outcome(Delete(table, id).table, Returned("deleteItem", {}))

\* ---- calls ----
NoData == <<>>
NoCall == [op |-> "none", input |-> NoData, at |-> 0]
NoResult == Returned("none", {})
NoRace == [kind |-> "none", held |-> {}, calls |-> <<>>, ran |-> <<>>]
NoRequest ==
    [op |-> "none", input |-> NoData, form |-> "none", stage |-> "none",
     response |-> NoResult]

\* useState<Item[]>([]), useState(false), useState(false), useState<Item | null>(null);
\* null is the empty set, an item is the set holding it
AppState ==
    [items |-> <<>>, isLoading |-> FALSE, isDialogOpen |-> FALSE,
     selectedItemForEdit |-> {}]

\* formData of a form without initialData
EmptyFormData == [name |-> "", description |-> Null, quantity |-> 0]

\* the create form is always there; the edit form is there while the dialog
\* shows a selected item
Forms == [create |-> EmptyFormData, edit |-> {}]

Init ==
    /\ items = {}
    /\ items_id_seq = 0
    /\ now = 0
    /\ pc = "idle"
    /\ call = NoCall
    /\ before = {}
    /\ result = NoResult
    /\ rawInput = NoData
    /\ race = NoRace
    /\ app = AppState
    /\ forms = Forms
    /\ request = NoRequest

\* a handler is called with this input and leaves this outcome
Handle(op, input, out) ==
    /\ pc' = "done"
    /\ call' = [op |-> op, input |-> input, at |-> now]
    /\ before' = items
    /\ items' = out.items
    /\ result' = out.result
    /\ UNCHANGED <<race, clientVars>>

\* createItem is called at time now; its insert runs at some time t from then on
HandleCreateItem(input) ==
    /\ pc = "idle"
    /\ items_id_seq < MaxSeq
    /\ \E t \in now..MaxClock :
         \E out \in {createItem(items, items_id_seq + 1, t, input)} :
            /\ Handle("createItem", input, out)
            /\ items_id_seq' = items_id_seq + 1
            /\ now' = t

HandleGetItems ==
    /\ pc = "idle"
    /\ \E out \in {getItems(items)} : Handle("getItems", NoData, out)
    /\ UNCHANGED <<items_id_seq, now>>

HandleGetItemById(id) ==
    /\ pc = "idle"
    /\ \E out \in {getItemById(items, id)} : Handle("getItemById", id, out)
    /\ UNCHANGED <<items_id_seq, now>>

HandleUpdateItem(input) ==
    /\ pc = "idle"
    /\ \E out \in {updateItem(items, input)} : Handle("updateItem", input, out)
    /\ UNCHANGED <<items_id_seq, now>>

HandleDeleteItem(id) ==
    /\ pc = "idle"
    /\ \E out \in {deleteItem(items, id)} : Handle("deleteItem", id, out)
    /\ UNCHANGED <<items_id_seq, now>>

\* the caller has the outcome and may call again
Return ==
    /\ pc = "done"
    /\ pc' = "idle"
    /\ call' = NoCall
    /\ before' = {}
    /\ result' = NoResult
    /\ rawInput' = NoData
    /\ UNCHANGED <<items, items_id_seq, now, race, clientVars>>

\* time passes between calls
Tick ==
    /\ pc = "idle"
    /\ now < MaxClock
    /\ now' = now + 1
    /\ UNCHANGED <<items, items_id_seq, pc, call, before, result, rawInput, race, clientVars>>

\* ---- validation (zod) ----
\* a parse gives the parsed data and the issues found, in the order of the checks
Issue(path, code) == [path |-> path, code |-> code]

\* z.string().min(1, "Name cannot be empty")
NonEmptyString(path, x) ==
    IF Len(x) >= 1 THEN <<>> ELSE <<Issue(path, "too_small")>>

\* z.number().int()
IntCheck(path, x) ==
    IF x.f = 0 THEN <<>> ELSE <<Issue(path, "invalid_type")>>

\* seeded fault: quantity without .nonnegative()
NonnegativeCheck_missing(path, x) == <<>>

\* .nonnegative()
NonnegativeCheck(path, x) ==
    IF x.w >= 0 THEN <<>> ELSE <<Issue(path, "too_small")>>

\* seeded fault: .nonnegative() in place of .positive()
PositiveCheck_allowsZero(path, x) ==
    IF x.w >= 0 THEN <<>> ELSE <<Issue(path, "too_small")>>

\* .positive()
PositiveCheck(path, x) ==
    IF x.w > 0 \/ (x.w = 0 /\ x.f > 0) THEN <<>> ELSE <<Issue(path, "too_small")>>

\* a field that is not optional and has no default must be sent
Required(path, x, issues) ==
    IF x = Undefined THEN <<Issue(path, "invalid_type")>> ELSE issues

\* .optional(): a field left out passes
Optional(x, issues) ==
    IF x = Undefined THEN <<>> ELSE issues

\* a failed parse gives no data
Parsed(issues, data) == [issues |-> issues, data |-> data]

\* createItemInputSchema
createItemInputSchema(raw) ==
    LET quantity == IF raw.quantity = Undefined THEN Some(Whole(0)) ELSE raw.quantity
        issues ==
            Required("name", raw.name, NonEmptyString("name", raw.name[1]))
            \o Required("description", raw.description, <<>>)
            \o IntCheck("quantity", quantity[1])
            \o NonnegativeCheck("quantity", quantity[1])
    IN  IF issues # <<>> THEN Parsed(issues, NoData)
        ELSE Parsed(<<>>, [name |-> raw.name[1], description |-> raw.description[1],
                           quantity |-> quantity[1].w])

\* the value of an optional number that passed its checks
OptionalInt(x) == IF x = Undefined THEN Undefined ELSE Some(x[1].w)

\* updateItemInputSchema
updateItemInputSchema(raw) ==
    LET issues ==
            IntCheck("id", raw.id) \o PositiveCheck("id", raw.id)
            \o Optional(raw.name, NonEmptyString("name", raw.name[1]))
            \o Optional(raw.quantity,
                        IntCheck("quantity", raw.quantity[1])
                        \o NonnegativeCheck("quantity", raw.quantity[1]))
    IN  IF issues # <<>> THEN Parsed(issues, NoData)
        ELSE Parsed(<<>>, [id |-> raw.id.w, name |-> raw.name,
                           description |-> raw.description,
                           quantity |-> OptionalInt(raw.quantity)])

\* z.number().int().positive("Item ID must be a positive integer")
itemIdSchema(raw) ==
    LET issues == IntCheck("", raw) \o PositiveCheck("", raw)
    IN  IF issues # <<>> THEN Parsed(issues, NoData) ELSE Parsed(<<>>, raw.w)

\* ---- procedures of appRouter ----
\* the input is rejected before the handler: the caller gets the issues
Reject(op, raw, issues) ==
    /\ pc' = "done"
    /\ call' = [op |-> op, input |-> raw, at |-> now]
    /\ before' = items
    /\ result' = Thrown(op, "validation_error", issues)
    /\ rawInput' = raw
    /\ UNCHANGED <<items, items_id_seq, now, race, clientVars>>

\* what clients send
RawNames == {"", "a", "b"}
RawQuantities == {Whole(-1), Whole(0), Whole(1), Number(1, 5)}
RawIds == {Whole(n) : n \in -1..(MaxSeq + 1)} \cup {Number(1, 5)}
RawCreateItemInputs ==
    [name : Opt(RawNames), description : Opt(Descriptions), quantity : Opt(RawQuantities)]
RawUpdateItemInputs ==
    [id : RawIds, name : Opt(RawNames), description : Opt(Descriptions),
     quantity : Opt(RawQuantities)]

\* publicProcedure.input(schema).mutation(({ input }) => handler(input))
\* (a value is bound with \E over a singleton so that it is computed once)
RpcCreateItem ==
    /\ pc = "idle"
    /\ \E raw \in RawCreateItemInputs :
         \E parsed \in {createItemInputSchema(raw)} :
            IF parsed.issues = <<>> THEN HandleCreateItem(parsed.data) /\ rawInput' = raw
            ELSE Reject("createItem", raw, parsed.issues)

RpcGetItems ==
    /\ HandleGetItems
    /\ rawInput' = NoData

RpcGetItemById ==
    /\ pc = "idle"
    /\ \E raw \in RawIds :
         \E parsed \in {itemIdSchema(raw)} :
            IF parsed.issues = <<>> THEN HandleGetItemById(parsed.data) /\ rawInput' = raw
            ELSE Reject("getItemById", raw, parsed.issues)

RpcUpdateItem ==
    /\ pc = "idle"
    /\ \E raw \in RawUpdateItemInputs :
         \E parsed \in {updateItemInputSchema(raw)} :
            IF parsed.issues = <<>> THEN HandleUpdateItem(parsed.data) /\ rawInput' = raw
            ELSE Reject("updateItem", raw, parsed.issues)

RpcDeleteItem ==
    /\ pc = "idle"
    /\ \E raw \in RawIds :
         \E parsed \in {itemIdSchema(raw)} :
            IF parsed.issues = <<>> THEN HandleDeleteItem(parsed.data) /\ rawInput' = raw
            ELSE Reject("deleteItem", raw, parsed.issues)

Next ==
    \/ RpcCreateItem
    \/ RpcGetItems
    \/ RpcGetItemById
    \/ RpcUpdateItem
    \/ RpcDeleteItem
    \/ Return
    \/ Tick

Spec == Init /\ [][Next]_vars

\* ---- handlers called directly, as the server's tests call them ----
\* an input of TypeScript type CreateItemInput / UpdateItemInput / number
Quantities == {-1, 0, 1}
Ids == 0..(MaxSeq + 1)
CreateItemInputs == [name : Names, description : Descriptions, quantity : Quantities]
UpdateItemInputs ==
    [id : Ids, name : Opt(Names), description : Opt(Descriptions), quantity : Opt(Quantities)]

CallCreateItem ==
    /\ pc = "idle"
    /\ \E input \in CreateItemInputs : HandleCreateItem(input)
    /\ rawInput' = NoData
CallGetItems ==
    /\ HandleGetItems
    /\ rawInput' = NoData
CallGetItemById ==
    /\ pc = "idle"
    /\ \E id \in Ids : HandleGetItemById(id)
    /\ rawInput' = NoData
CallUpdateItem ==
    /\ pc = "idle"
    /\ \E input \in UpdateItemInputs : HandleUpdateItem(input)
    /\ rawInput' = NoData
CallDeleteItem ==
    /\ pc = "idle"
    /\ \E id \in Ids : HandleDeleteItem(id)
    /\ rawInput' = NoData

NextHandlers ==
    \/ CallCreateItem
    \/ CallGetItems
    \/ CallGetItemById
    \/ CallUpdateItem
    \/ CallDeleteItem
    \/ Return
    \/ Tick

SpecHandlers == Init /\ [][NextHandlers]_vars

\* ---- the edit form of the client (ItemForm with initialData) ----
\* what onChange can put in formData: description is e.target.value || null (an
\* emptied description becomes null), quantity is parseInt(e.target.value) || 0
TypedDescriptions == {Null, "d"}
TypedQuantities == {-1, 0}

\* the number input has min="0": the browser does not submit a form whose
\* quantity is below it
Submittable(data) == data.quantity >= 0

\* what the description and quantity inputs can hold when the form is
\* submitted: the value the form was filled with, or a typed one
FormDescriptions(initialData) == {initialData.description} \cup TypedDescriptions
FormQuantities(initialData) ==
    {q \in {initialData.quantity} \cup TypedQuantities : q >= 0}

\* seeded fault: the form sends only the fields the user changed
EditFormData_changedOnly(initialData, description, quantity) ==
    [id |-> initialData.id,
     name |-> Undefined,
     description |-> IF description = initialData.description THEN Undefined
                     ELSE Some(description),
     quantity |-> IF quantity = initialData.quantity THEN Undefined
                  ELSE Some(quantity)]

\* formData when the form is submitted: id and name are those of initialData
\* (the name input is disabled), description and quantity are the inputs' values
EditFormData(initialData, description, quantity) ==
    [id |-> initialData.id,
     name |-> Some(initialData.name),
     description |-> Some(description),
     quantity |-> Some(quantity)]

\* ---- two calls on the same row in flight at once ----
\* Each handler runs one statement, and the table runs statements one at a
\* time, so the interleavings of two calls are the two orders of their
\* statements.  Both calls are made while the row is in the table; held is the
\* row as it was then, before is the table as it was then.
ValidDescriptions == {Null, "d"}
ValidQuantities == {0, 1}
ValidUpdateItemInputs(id) ==
    [id : {id}, name : Opt(Names), description : Opt(ValidDescriptions),
     quantity : Opt(ValidQuantities)]

InFlight(op, input) == [op |-> op, input |-> input, result |-> NoResult]

Concurrent(kind, r, c1, c2) ==
    /\ pc' = "race"
    /\ race' = [kind |-> kind, held |-> {r}, calls |-> <<c1, c2>>, ran |-> <<>>]
    /\ before' = items
    /\ UNCHANGED <<items, items_id_seq, now, call, result, rawInput, clientVars>>

\* two updateItem calls that send no field in common
ConcurrentUpdates ==
    /\ pc = "idle"
    /\ \E r \in items :
         \E i1, i2 \in ValidUpdateItemInputs(r.id) :
            /\ \A f \in Fields : i1[f] = Undefined \/ i2[f] = Undefined
            /\ Concurrent("updates", r, InFlight("updateItem", i1),
                          InFlight("updateItem", i2))

\* two clients have the row in their lists and submit their edit forms
ConcurrentEdits ==
    /\ pc = "idle"
    /\ \E r \in items :
         \E d1, d2 \in FormDescriptions(r) : \E q1, q2 \in FormQuantities(r) :
            Concurrent("edits", r, InFlight("updateItem", EditFormData(r, d1, q1)),
                       InFlight("updateItem", EditFormData(r, d2, q2)))

\* an updateItem and a deleteItem
ConcurrentUpdateDelete ==
    /\ pc = "idle"
    /\ \E r \in items :
         \E i \in ValidUpdateItemInputs(r.id) :
            Concurrent("update_delete", r, InFlight("updateItem", i),
                       InFlight("deleteItem", r.id))

\* the statement of call k runs
Statement(k) ==
    /\ pc = "race"
    /\ k \in DOMAIN race.calls
    /\ \A j \in DOMAIN race.ran : race.ran[j] # k
    /\ \E out \in {IF race.calls[k].op = "updateItem"
                   THEN updateItem(items, race.calls[k].input)
                   ELSE deleteItem(items, race.calls[k].input)} :
          /\ items' = out.items
          /\ race' = [race EXCEPT !.calls[k].result = out.result,
                                  !.ran = Append(@, k)]
    /\ UNCHANGED <<items_id_seq, now, pc, call, before, result, rawInput, clientVars>>

\* both callers have their outcomes
Settle ==
    /\ pc = "race"
    /\ Len(race.ran) = Len(race.calls)
    /\ pc' = "idle"
    /\ race' = NoRace
    /\ before' = {}
    /\ UNCHANGED <<items, items_id_seq, now, call, result, rawInput, clientVars>>

NextRace ==
    \/ RpcCreateItem
    \/ RpcDeleteItem
    \/ Return
    \/ Tick
    \/ ConcurrentUpdates
    \/ ConcurrentEdits
    \/ ConcurrentUpdateDelete
    \/ \E k \in 1..2 : Statement(k)
    \/ Settle

SpecRace == Init /\ [][NextRace]_vars

\* ---- the client: App and its two ItemForms ----
\* One user, one App, the only caller.  A request goes out (stage "sent"), the
\* server handles it (stage "responded"), and the code after the await runs to
\* its end in one step.  Whatever the code does not disable can be clicked at
\* any time, and the inputs of the forms can be typed into at any time, also
\* while a request is in flight: each onChange is a step of its own.  The page can be opened again when no request is in flight: that
\* is a new App in its initial state.  The clock stands still: the client only
\* shows created_at.

\* publicProcedure.input(schema).query/mutation(handler): the outcome of a call
appRouter(op, raw, table, id, t) ==
    LET parsed == CASE op = "createItem" -> createItemInputSchema(raw)
                    [] op = "updateItem" -> updateItemInputSchema(raw)
                    [] op \in {"getItemById", "deleteItem"} -> itemIdSchema(raw)
                    [] OTHER -> Parsed(<<>>, NoData)
    IN  IF parsed.issues # <<>>
        THEN Outcome(table, Thrown(op, "validation_error", parsed.issues))
        ELSE CASE op = "createItem" -> createItem(table, id, t, parsed.data)
               [] op = "updateItem" -> updateItem(table, parsed.data)
               [] op = "getItemById" -> getItemById(table, parsed.data)
               [] op = "deleteItem" -> deleteItem(table, parsed.data)
               [] OTHER -> getItems(table)

\* formData as JSON on the wire
WireCreateItemInput(data) ==
    [name |-> Some(data.name), description |-> Some(data.description),
     quantity |-> Some(Whole(data.quantity))]
WireUpdateItemInput(data) ==
    [id |-> Whole(data.id), name |-> Some(data.name),
     description |-> Some(data.description), quantity |-> Some(Whole(data.quantity))]

\* formData of a form with initialData
InitialFormData(initialData) ==
    [id |-> initialData.id, name |-> initialData.name,
     description |-> initialData.description, quantity |-> initialData.quantity]

\* the arrays that hold the rows of a result, each once
Arrays(rows) ==
    {a \in [1..Cardinality(rows) -> rows] : \A i, j \in DOMAIN a : a[i] = a[j] => i = j}

Sent(op, input, form) ==
    [op |-> op, input |-> input, form |-> form, stage |-> "sent",
     response |-> NoResult]

\* seeded fault: the updated item is not put in the list
ReplaceItem_keepsOld(prev, updatedItem) == prev

\* prev.map(item => item.id === updatedItem.id ? updatedItem : item)
ReplaceItem(prev, updatedItem) ==
    [i \in DOMAIN prev |-> IF prev[i].id = updatedItem.id THEN updatedItem ELSE prev[i]]

\* prev.filter(item => item.id !== itemId)
RemoveItem(prev, itemId) == SelectSeq(prev, LAMBDA item : item.id # itemId)

\* useEffect(() => { loadItems() }): the App mounts and asks for the items
LoadItems ==
    /\ pc \in {"idle", "client"}
    /\ request.stage = "none"
    /\ pc' = "client"
    /\ app' = [AppState EXCEPT !.isLoading = TRUE]
    /\ forms' = Forms
    /\ request' = Sent("getItems", NoData, "none")
    /\ UNCHANGED <<items, items_id_seq, now, call, before, result, rawInput, race>>

\* the server handles the request in flight
ServerResponds ==
    /\ pc = "client"
    /\ request.stage = "sent"
    /\ request.op = "createItem" => items_id_seq < MaxSeq
    /\ \E out \in {appRouter(request.op, request.input, items, items_id_seq + 1, now)} :
          /\ items' = out.items
          /\ request' = [request EXCEPT !.stage = "responded",
                                        !.response = out.result]
          /\ items_id_seq' =
                IF request.op = "createItem" /\ out.result.status # "validation_error"
                THEN items_id_seq + 1 ELSE items_id_seq
    /\ UNCHANGED <<now, pc, call, before, result, rawInput, race, app, forms>>

\* loadItems after the await: setItems(result), or the error is logged
LoadItemsSettled ==
    /\ pc = "client"
    /\ request.stage = "responded"
    /\ request.op = "getItems"
    /\ \E a \in IF request.response.status = "ok"
                THEN Arrays(request.response.rows) ELSE {app.items} :
          app' = [app EXCEPT !.items = a, !.isLoading = FALSE]
    /\ request' = NoRequest
    /\ UNCHANGED <<items, items_id_seq, now, pc, call, before, result, rawInput, race, forms>>

\* handleItemSubmit up to its await: an update when data has an id, else a create
handleItemSubmit(data, form) ==
    /\ app' = [app EXCEPT !.isLoading = TRUE]
    /\ request' = IF "id" \in DOMAIN data
                  THEN Sent("updateItem", WireUpdateItemInput(data), form)
                  ELSE Sent("createItem", WireCreateItemInput(data), form)
    /\ UNCHANGED <<items, items_id_seq, now, pc, call, before, result, rawInput, race>>

\* the create form's inputs: onChange sets one field of formData
TypeInCreateForm ==
    /\ pc = "client"
    /\ \E data \in {[forms.create EXCEPT !.name = n] : n \in RawNames}
                \cup {[forms.create EXCEPT !.description = d] : d \in TypedDescriptions}
                \cup {[forms.create EXCEPT !.quantity = q] : q \in TypedQuantities} :
          /\ data # forms.create
          /\ forms' = [forms EXCEPT !.create = data]
    /\ UNCHANGED <<items, items_id_seq, now, pc, call, before, result, rawInput, race,
                   app, request>>

\* the edit form's inputs; its name input is disabled
TypeInEditForm ==
    /\ pc = "client"
    /\ \E old \in forms.edit :
         \E data \in {[old EXCEPT !.description = d] : d \in TypedDescriptions}
                     \cup {[old EXCEPT !.quantity = q] : q \in TypedQuantities} :
            /\ data # old
            /\ forms' = [forms EXCEPT !.edit = {data}]
    /\ UNCHANGED <<items, items_id_seq, now, pc, call, before, result, rawInput, race,
                   app, request>>

\* the create form is submitted: its button is enabled, the name, which is
\* required, is not empty, and the quantity is not below min
SubmitCreateForm ==
    /\ pc = "client"
    /\ ~app.isLoading
    /\ forms.create.name # ""
    /\ Submittable(forms.create)
    /\ handleItemSubmit(forms.create, "create")
    /\ UNCHANGED forms

\* the edit form is submitted: its button is enabled, and the quantity is not
\* below min
SubmitEditForm ==
    /\ pc = "client"
    /\ ~app.isLoading
    /\ \E data \in forms.edit :
          /\ Submittable(data)
          /\ handleItemSubmit(data, "edit")
    /\ UNCHANGED forms

\* seeded fault: handleItemSubmit does not throw the error again, so ItemForm's
\* handleSubmit goes on as after a success: the create form is reset, the edit
\* form calls onFormSuccess
ItemSubmitSettled_errorSwallowed ==
    /\ pc = "client"
    /\ request.stage = "responded"
    /\ request.op \in {"createItem", "updateItem"}
    /\ IF request.response.status = "ok"
       THEN \E item \in request.response.rows :
               /\ app' = [items |-> IF request.op = "updateItem"
                                    THEN ReplaceItem(app.items, item)
                                    ELSE Append(app.items, item),
                          isLoading |-> FALSE,
                          isDialogOpen |-> IF request.form = "edit" THEN FALSE
                                           ELSE app.isDialogOpen,
                          selectedItemForEdit |->
                             IF request.form = "edit" THEN {}
                             ELSE app.selectedItemForEdit]
       ELSE app' = [app EXCEPT
                      !.isLoading = FALSE,
                      !.isDialogOpen = IF request.form = "edit" THEN FALSE ELSE @,
                      !.selectedItemForEdit = IF request.form = "edit" THEN {} ELSE @]
    /\ forms' = [create |-> IF request.form = "create" THEN EmptyFormData
                            ELSE forms.create,
                 edit |-> IF request.form = "edit" THEN {} ELSE forms.edit]
    /\ request' = NoRequest
    /\ UNCHANGED <<items, items_id_seq, now, pc, call, before, result, rawInput, race>>

\* handleItemSubmit after its await, then ItemForm's handleSubmit after its own:
\* on success the list takes the item, an update closes the dialog, the create
\* form is reset and the edit form calls onFormSuccess (closeEditDialog); on
\* failure there is an alert and nothing but isLoading changes
ItemSubmitSettled ==
    /\ pc = "client"
    /\ request.stage = "responded"
    /\ request.op \in {"createItem", "updateItem"}
    /\ IF request.response.status = "ok"
       THEN \E item \in request.response.rows :
               LET closes == request.op = "updateItem" \/ request.form = "edit"
               IN  /\ app' = [items |-> IF request.op = "updateItem"
                                        THEN ReplaceItem(app.items, item)
                                        ELSE Append(app.items, item),
                              isLoading |-> FALSE,
                              isDialogOpen |-> IF closes THEN FALSE ELSE app.isDialogOpen,
                              selectedItemForEdit |->
                                 IF closes THEN {} ELSE app.selectedItemForEdit]
                   /\ forms' = [create |-> IF request.form = "create" THEN EmptyFormData
                                           ELSE forms.create,
                                edit |-> IF closes THEN {} ELSE forms.edit]
       ELSE /\ app' = [app EXCEPT !.isLoading = FALSE]
            /\ forms' = forms
    /\ request' = NoRequest
    /\ UNCHANGED <<items, items_id_seq, now, pc, call, before, result, rawInput, race>>

\* seeded fault: the Delete buttons without disabled={isLoading}
ClickDelete_notDisabled ==
    /\ pc = "client"
    /\ \E i \in DOMAIN app.items :
          request' = Sent("deleteItem", Whole(app.items[i].id), "none")
    /\ app' = [app EXCEPT !.isLoading = TRUE]
    /\ UNCHANGED <<items, items_id_seq, now, pc, call, before, result, rawInput, race,
                   forms>>

\* handleDeleteItem up to its await: a Delete button is clicked
ClickDelete ==
    /\ pc = "client"
    /\ ~app.isLoading
    /\ \E i \in DOMAIN app.items :
          request' = Sent("deleteItem", Whole(app.items[i].id), "none")
    /\ app' = [app EXCEPT !.isLoading = TRUE]
    /\ UNCHANGED <<items, items_id_seq, now, pc, call, before, result, rawInput, race,
                   forms>>

\* handleDeleteItem after its await
DeleteSettled ==
    /\ pc = "client"
    /\ request.stage = "responded"
    /\ request.op = "deleteItem"
    /\ app' = [app EXCEPT
                 !.items = IF request.response.status = "ok"
                           THEN RemoveItem(@, request.input.w) ELSE @,
                 !.isLoading = FALSE]
    /\ request' = NoRequest
    /\ UNCHANGED <<items, items_id_seq, now, pc, call, before, result, rawInput, race,
                   forms>>

\* openEditDialog(item): an Edit button is clicked; the edit form is filled
\* from the item unless it already shows this very item
OpenEditDialog ==
    /\ pc = "client"
    /\ \E i \in DOMAIN app.items :
          /\ app' = [app EXCEPT !.selectedItemForEdit = {app.items[i]},
                                !.isDialogOpen = TRUE]
          /\ forms' = IF app.isDialogOpen /\ app.selectedItemForEdit = {app.items[i]}
                      THEN forms
                      ELSE [forms EXCEPT !.edit = {InitialFormData(app.items[i])}]
    /\ UNCHANGED <<items, items_id_seq, now, pc, call, before, result, rawInput, race,
                   request>>

\* closeEditDialog: Cancel is clicked
CloseEditDialog ==
    /\ pc = "client"
    /\ app.isDialogOpen
    /\ app' = [app EXCEPT !.selectedItemForEdit = {}, !.isDialogOpen = FALSE]
    /\ forms' = [forms EXCEPT !.edit = {}]
    /\ UNCHANGED <<items, items_id_seq, now, pc, call, before, result, rawInput, race,
                   request>>

\* onOpenChange(false): the dialog is dismissed; the selected item stays
DismissDialog ==
    /\ pc = "client"
    /\ app.isDialogOpen
    /\ app' = [app EXCEPT !.isDialogOpen = FALSE]
    /\ forms' = [forms EXCEPT !.edit = {}]
    /\ UNCHANGED <<items, items_id_seq, now, pc, call, before, result, rawInput, race,
                   request>>

NextClient ==
    \/ LoadItems
    \/ ServerResponds
    \/ LoadItemsSettled
    \/ TypeInCreateForm
    \/ TypeInEditForm
    \/ SubmitCreateForm
    \/ SubmitEditForm
    \/ ItemSubmitSettled
    \/ ClickDelete
    \/ DeleteSettled
    \/ OpenEditDialog
    \/ CloseEditDialog
    \/ DismissDialog

SpecClient == Init /\ [][NextClient]_vars

\* ---- properties ----
\* the handler op ran (its input passed validation) and its outcome stands
Handled(op) == pc = "done" /\ call.op = op /\ result.status # "validation_error"

\* the rows of table with this id / with this name
WithId(table, id) == {r \in table : r.id = id}
WithName(table, name) == {r \in table : r.name = name}

\* s holds sub as a run of consecutive elements
Contains(s, sub) ==
    \E i \in 1..(Len(s) - Len(sub) + 1) : SubSeq(s, i, i + Len(sub) - 1) = sub

\* the value an update leaves in a column: the one sent, else the old one
Written(sent, old) == IF sent = Undefined THEN old ELSE sent[1]

\* C1: createItem with a valid input whose name no row holds succeeds; when it
\* succeeds the table is the table before plus exactly one row, which is also
\* the item returned: its name, description and quantity are the input's, its
\* id is a positive integer no other row holds, and its created_at is not
\* earlier than the call.
C1_CreateAddsTheRow ==
    Handled("createItem") =>
        /\ WithName(before, call.input.name) = {} => result.status = "ok"
        /\ result.status = "ok" =>
              \E r \in items :
                 /\ r \notin before
                 /\ items = before \cup {r}
                 /\ result.rows = {r}
                 /\ r.name = call.input.name
                 /\ r.description = call.input.description
                 /\ r.quantity = call.input.quantity
                 /\ r.id \in Nat \ {0}
                 /\ WithId(before, r.id) = {}
                 /\ r.created_at >= call.at

C1_Witness ==
    /\ Handled("createItem")
    /\ result.status = "ok"
    /\ before # {}
    /\ call.input.description = ""
    /\ \E r \in result.rows : r.created_at > call.at

\* C2: createItem with a name a row already holds throws a unique violation,
\* returns nothing, and leaves the table as it was.
C2_DuplicateCreateRejected ==
    (Handled("createItem") /\ WithName(before, call.input.name) # {}) =>
        /\ result.status = "unique_violation"
        /\ result.rows = {}
        /\ items = before

C2_Witness ==
    /\ Handled("createItem")
    /\ result.status = "unique_violation"
    /\ \E r \in before :
          /\ r.name = call.input.name
          /\ r.description # call.input.description
          /\ r.quantity # call.input.quantity

\* C3: no two rows ever have the same name, and a call that ends in a unique
\* violation has left the table as it was.
C3_NamesUnique ==
    /\ \A r1, r2 \in items : r1.name = r2.name => r1 = r2
    /\ (pc = "done" /\ result.status = "unique_violation") => items = before

C3_Witness ==
    /\ Handled("updateItem")
    /\ result.status = "unique_violation"
    /\ Cardinality(items) = 2

\* C4: through the procedures, every stored quantity is a non-negative integer.
C4_QuantityNonNegative ==
    \A r \in items : r.quantity \in Nat

C4_Witness ==
    /\ Handled("updateItem")
    /\ result.status = "ok"
    /\ call.input.quantity = Some(0)
    /\ \E r \in before : r.id = call.input.id /\ r.quantity > 0

\* C5: a handler called with a negative quantity is refused by the table: the
\* call fails, the table is as before, and no row has a negative quantity.
C5_StoreRefusesNegative ==
    /\ (Handled("createItem") /\ call.input.quantity < 0) =>
          (result.status # "ok" /\ items = before)
    /\ (Handled("updateItem") /\ call.input.quantity # Undefined
            /\ Written(call.input.quantity, 0) < 0) =>
          (result.status # "ok" /\ items = before)
    /\ \A r \in items : r.quantity >= 0

\* C6: getItemById returns the row with the id exactly as stored when there is
\* one, and null (no error) when there is none; the table is unchanged.
C6_GetByIdReturnsStored ==
    Handled("getItemById") =>
        /\ result.status = "ok"
        /\ items = before
        /\ \A r \in before : r.id = call.input => result.rows = {r}
        /\ WithId(before, call.input) = {} => result.rows = {}

C6_Witness ==
    /\ Handled("getItemById")
    /\ \E r \in result.rows : r.description = ""
    /\ \E r \in items : r.description = Null

\* C7: updateItem on an existing id whose new name no other row holds succeeds;
\* when it succeeds the row has the value sent in each of name, description and
\* quantity that was sent (null when description was sent as null) and its old
\* value in the others, its id and created_at are the old ones, every other row
\* is as before, and the item returned is the row.
C7_UpdateWritesSentFields ==
    Handled("updateItem") =>
        \A old \in WithId(before, call.input.id) :
           LET new == Row(old.id,
                          Written(call.input.name, old.name),
                          Written(call.input.description, old.description),
                          Written(call.input.quantity, old.quantity),
                          old.created_at)
           IN  /\ WithName(before, new.name) \subseteq {old} => result.status = "ok"
               /\ result.status = "ok" =>
                     /\ items = (before \ {old}) \cup {new}
                     /\ result.rows = {new}

C7_Witness ==
    /\ Handled("updateItem")
    /\ result.status = "ok"
    /\ call.input.name = Undefined
    /\ call.input.description = Some(Null)
    /\ call.input.quantity = Undefined
    /\ Cardinality(before) = 2
    /\ \E r \in before : r.id = call.input.id /\ r.description = "d" /\ r.quantity > 0

\* C8: updateItem with an id and no other field, on an existing row, leaves the
\* table as it was and returns the row.
C8_UpdateNoFieldsReads ==
    (/\ Handled("updateItem")
     /\ call.input.name = Undefined
     /\ call.input.description = Undefined
     /\ call.input.quantity = Undefined) =>
        \A r \in WithId(before, call.input.id) :
           /\ result.status = "ok"
           /\ result.rows = {r}
           /\ items = before

C8_Witness ==
    /\ Handled("updateItem")
    /\ updateFields(call.input) = <<>>
    /\ result.status = "ok"
    /\ result.rows # {}

\* C9: updateItem on an id no row has throws not-found with the id in the
\* message, whether or not fields were sent, and leaves the table as it was.
C9_UpdateMissingIdNotFound ==
    (Handled("updateItem") /\ WithId(before, call.input.id) = {}) =>
        /\ result.status = "not_found"
        /\ Contains(result.message, ToString(call.input.id))
        /\ items = before

C9_Witness ==
    /\ Handled("updateItem")
    /\ result.status = "not_found"
    /\ updateFields(call.input) = <<>>
    /\ items # {}
    /\ items_id_seq >= call.input.id

\* C10: updateItem that sets the name to one another row holds throws a unique
\* violation and leaves the table as it was: neither the name nor a description
\* or quantity sent with it is written.
C10_UpdateDuplicateNameRejected ==
    (/\ Handled("updateItem")
     /\ WithId(before, call.input.id) # {}
     /\ call.input.name # Undefined
     /\ \E o \in before : o.id # call.input.id /\ Some(o.name) = call.input.name) =>
        /\ result.status = "unique_violation"
        /\ result.rows = {}
        /\ items = before

C10_Witness ==
    /\ Handled("updateItem")
    /\ result.status = "unique_violation"
    /\ \E r \in before :
          /\ r.id = call.input.id
          /\ call.input.quantity # Undefined
          /\ call.input.quantity # Some(r.quantity)
          /\ call.input.description # Undefined
          /\ call.input.description # Some(r.description)

\* C11: deleteItem never fails: afterwards the table is the table before less
\* the row with the id, every other row as it was; when no row has the id the
\* table is as before, and a second deleteItem with the same id changes nothing.
C11_DeleteRemovesOnlyTheRow ==
    Handled("deleteItem") =>
        /\ result.status = "ok"
        /\ result.rows = {}
        /\ items = before \ WithId(before, call.input)
        /\ \A r \in before : r.id # call.input => r \in items
        /\ WithId(before, call.input) = {} => items = before
        /\ deleteItem(items, call.input).result.status = "ok"
        /\ deleteItem(items, call.input).items = items

C11_Witness ==
    /\ Handled("deleteItem")
    /\ result.status = "ok"
    /\ WithId(before, call.input) # {}
    /\ items # {}

\* C12: no call changes the created_at of a row: a row that is in the table
\* before and after a call has the created_at it had, whatever the call and
\* whatever fields an updateItem carries.
C12_CreatedAtNeverChanges ==
    pc = "done" =>
        \A r \in before : \A s \in items :
           r.id = s.id => s.created_at = r.created_at

C12_Witness ==
    /\ Handled("updateItem")
    /\ result.status = "ok"
    /\ \E r \in before :
          /\ r.id = call.input.id
          /\ r.created_at < now
          /\ call.input.name \notin {Undefined, Some(r.name)}
          /\ call.input.description \notin {Undefined, Some(r.description)}
          /\ call.input.quantity \notin {Undefined, Some(r.quantity)}

\* C13: an id is never reused or changed. In every step the sequence does not
\* go back, an id the sequence has given out that no row has stays without a
\* row (getItemById of it gives null afterwards too), and a row whose id no row
\* had before the step has the value the sequence gave out in that step.
C13_IdNeverReused ==
    [][/\ items_id_seq' >= items_id_seq
       /\ \A id \in 1..items_id_seq :
             WithId(items, id) = {} =>
                /\ WithId(items', id) = {}
                /\ getItemById(items', id).result.rows = {}
       /\ \A s \in items' :
             WithId(items, s.id) = {} =>
                /\ s.id = items_id_seq'
                /\ s.id > items_id_seq]_vars

C13_Witness ==
    /\ Handled("getItemById")
    /\ call.input < items_id_seq
    /\ result.rows = {}
    /\ \E r \in items : r.id > call.input

\* what the schemas must refuse, on the input as sent
BadCreateItemInput(raw) ==
    \/ raw.name = Some("")
    \/ raw.description = Undefined
    \/ raw.quantity # Undefined /\ (raw.quantity[1].w < 0 \/ raw.quantity[1].f # 0)
BadItemId(raw) == raw.w <= 0 \/ raw.f # 0
BadUpdateItemInput(raw) ==
    \/ BadItemId(raw.id)
    \/ raw.name = Some("")
    \/ raw.quantity # Undefined /\ raw.quantity[1].w < 0

\* C14: a request whose input breaks its schema is rejected with a validation
\* error and the table is as it was: createItem for an empty name, a description
\* left out, a negative or non-integer quantity (a quantity left out is
\* accepted and is 0 for the handler); updateItem for an id that is not a
\* positive integer, an empty name, a negative quantity; getItemById and
\* deleteItem for an id that is not a positive integer.
C14_InvalidInputRejected ==
    pc = "done" =>
        /\ result.status = "validation_error" =>
              (items = before /\ result.rows = {} /\ result.message # <<>>)
        /\ call.op = "createItem" =>
              /\ BadCreateItemInput(rawInput) => result.status = "validation_error"
              /\ (/\ rawInput.name \in {Some(n) : n \in Names}
                  /\ rawInput.description # Undefined
                  /\ rawInput.quantity = Undefined) =>
                    /\ Handled("createItem")
                    /\ call.input.quantity = 0
                    /\ \A r \in result.rows : r.quantity = 0
        /\ call.op = "updateItem" =>
              (BadUpdateItemInput(rawInput) => result.status = "validation_error")
        /\ call.op \in {"getItemById", "deleteItem"} =>
              (BadItemId(rawInput) => result.status = "validation_error")

C14_Witness ==
    /\ pc = "done"
    /\ call.op = "updateItem"
    /\ result.status = "validation_error"
    /\ rawInput.quantity = Some(Whole(-1))
    /\ rawInput.name = Some("b")
    /\ \E r \in items : r.id = rawInput.id.w /\ rawInput.id.f = 0 /\ r.name = "a"

\* C15: getItems returns exactly the rows of the table, each as stored (no row
\* when the table is empty), without an error, and leaves the table as it was.
C15_GetItemsReturnsTheTable ==
    Handled("getItems") =>
        /\ result.status = "ok"
        /\ result.rows = before
        /\ items = before

C15_Witness ==
    /\ Handled("getItems")
    /\ Cardinality(result.rows) = 2
    /\ \E r \in result.rows : r.quantity = 0 /\ r.description = Null

\* both calls of a race of this kind have run
RaceOver(kind) == pc = "race" /\ race.kind = kind /\ Len(race.ran) = 2

\* row r after an update with this input
Updated(r, input) ==
    Row(r.id, Written(input.name, r.name), Written(input.description, r.description),
        Written(input.quantity, r.quantity), r.created_at)

\* the update sets the name to one another row holds
Collides(table, input) ==
    input.name # Undefined /\ NameTaken(table, input.name[1], input.id)

\* C16: a lost update is possible. When two clients submit their edit forms
\* for the same row at once, each form carries the name it was filled with and
\* its own description and quantity, both calls succeed, and the row ends with
\* the description and quantity of the call that ran last: what the other
\* client changed is overwritten.
C16_LaterEditOverwrites ==
    RaceOver("edits") =>
        \A r \in race.held :
           LET first == race.calls[race.ran[1]]
               last == race.calls[race.ran[2]]
           IN  /\ \A k \in 1..2 :
                     /\ race.calls[k].input.name = Some(r.name)
                     /\ race.calls[k].input.description # Undefined
                     /\ race.calls[k].input.quantity # Undefined
               /\ first.result.status = "ok"
               /\ first.result.rows = {Updated(r, first.input)}
               /\ last.result.status = "ok"
               /\ last.result.rows = {Updated(r, last.input)}
               /\ items = (before \ {r}) \cup {Updated(r, last.input)}

C16_Witness ==
    /\ RaceOver("edits")
    /\ \A k \in 1..2 : race.calls[k].result.status = "ok"
    /\ \E r \in race.held : \E s \in items :
          /\ s.id = r.id
          /\ race.calls[race.ran[1]].input.description # Some(r.description)
          /\ race.calls[race.ran[1]].input.quantity = Some(r.quantity)
          /\ race.calls[race.ran[2]].input.description = Some(r.description)
          /\ race.calls[race.ran[2]].input.quantity # Some(r.quantity)
          /\ s.description = r.description
          /\ s.quantity # r.quantity

\* C17 as claimed: two updateItem calls on the same row that send no field in
\* common both succeed in either order, and the row ends with both changes.
C17_DisjointUpdatesBothSucceed ==
    RaceOver("updates") =>
        \A r \in race.held :
           /\ \A k \in 1..2 : race.calls[k].result.status = "ok"
           /\ items = (before \ {r})
                         \cup {Updated(Updated(r, race.calls[1].input), race.calls[2].input)}

\* C17: two updateItem calls on the same row that send no field in common
\* commute: the table ends the same in either order. Unless one of them sets
\* the name to one another row holds, both succeed and the row ends with both
\* changes; the one that does fails with a unique violation in either order,
\* and the row ends with the other's change alone.
C17_DisjointUpdatesCommute ==
    RaceOver("updates") =>
        \A r \in race.held :
           LET i1 == race.calls[1].input
               i2 == race.calls[2].input
               e1 == IF Collides(before, i1) THEN r ELSE Updated(r, i1)
           IN  /\ \A k \in 1..2 :
                     race.calls[k].result.status =
                        IF Collides(before, race.calls[k].input)
                        THEN "unique_violation" ELSE "ok"
               /\ items = (before \ {r})
                             \cup {IF Collides(before, i2) THEN e1 ELSE Updated(e1, i2)}
               /\ items = updateItem(updateItem(before, i1).items, i2).items
               /\ items = updateItem(updateItem(before, i2).items, i1).items

C17_Witness ==
    /\ RaceOver("updates")
    /\ race.ran = <<2, 1>>
    /\ \A k \in 1..2 : race.calls[k].result.status = "ok"
    /\ DOMAIN updateFields(race.calls[1].input) = {"quantity"}
    /\ DOMAIN updateFields(race.calls[2].input) = {"description"}
    /\ \E r \in race.held : \E s \in items :
          /\ s.id = r.id
          /\ s.quantity # r.quantity
          /\ s.description # r.description

\* C18 as claimed: after an updateItem and a deleteItem on the same row, in
\* either order, the row is gone; the updateItem returned the updated row if it
\* ran first and failed with not-found if the delete ran first.
C18_UpdateReturnsRowOrNotFound ==
    RaceOver("update_delete") =>
        \A r \in race.held :
           LET update == race.calls[1]
           IN  /\ items = before \ {r}
               /\ race.calls[2].result.status = "ok"
               /\ IF race.ran[1] = 1
                  THEN /\ update.result.status = "ok"
                       /\ update.result.rows = {Updated(r, update.input)}
                  ELSE /\ update.result.status = "not_found"
                       /\ update.result.rows = {}

\* C18: after an updateItem and a deleteItem on the same row, in either order,
\* the row is gone and every other row is as it was: the updateItem never puts
\* the row back, with or without fields. If the delete ran first the
\* updateItem failed with not-found; if the updateItem ran first it returned
\* the updated row, or failed with a unique violation when it set the name to
\* one another row holds. The deleteItem succeeded.
C18_UpdateNeverRecreates ==
    RaceOver("update_delete") =>
        \A r \in race.held :
           LET update == race.calls[1]
           IN  /\ items = before \ {r}
               /\ race.calls[2].result.status = "ok"
               /\ IF race.ran[1] = 2
                  THEN /\ update.result.status = "not_found"
                       /\ update.result.rows = {}
                  ELSE IF Collides(before, update.input)
                  THEN /\ update.result.status = "unique_violation"
                       /\ update.result.rows = {}
                  ELSE /\ update.result.status = "ok"
                       /\ update.result.rows = {Updated(r, update.input)}

C18_Witness ==
    /\ RaceOver("update_delete")
    /\ race.ran = <<2, 1>>
    /\ race.calls[1].result.status = "not_found"
    /\ DOMAIN updateFields(race.calls[1].input) = Fields
    /\ items # {}
    /\ \A r \in race.held : WithId(items, r.id) = {}

\* C19: an updateItem whose name is the one its row already has succeeds and
\* writes the other fields sent (only a name held by another row is refused);
\* so what the edit form sends for a row of the table, its name as it is with
\* a description and a quantity, is applied.
C19_OwnNameAccepted ==
    Handled("updateItem") =>
        \A old \in WithId(before, call.input.id) :
           /\ call.input.name = Some(old.name) =>
                 /\ result.status = "ok"
                 /\ result.rows = {Updated(old, call.input)}
                 /\ items = (before \ {old}) \cup {Updated(old, call.input)}
           /\ \A d \in FormDescriptions(old) : \A q \in FormQuantities(old) :
                 LET out == updateItem(before, EditFormData(old, d, q))
                     new == Row(old.id, old.name, d, q, old.created_at)
                 IN  /\ out.result.status = "ok"
                     /\ out.result.rows = {new}
                     /\ out.items = (before \ {old}) \cup {new}

C19_Witness ==
    /\ Handled("updateItem")
    /\ result.status = "ok"
    /\ Cardinality(before) = 2
    /\ \E old \in before :
          /\ old.id = call.input.id
          /\ call.input.name = Some(old.name)
          /\ call.input.description \notin {Undefined, Some(old.description)}
          /\ call.input.quantity \notin {Undefined, Some(old.quantity)}
          /\ call.input = EditFormData(old, call.input.description[1],
                                       call.input.quantity[1])

\* the elements of an array
Range(a) == {a[i] : i \in DOMAIN a}

\* the client has no request in flight
Quiet == pc = "client" /\ request.stage = "none"

\* C20, between requests: the list holds exactly the rows of the table, each once
C20_ListIsStore ==
    Quiet => (Range(app.items) = items /\ Len(app.items) = Cardinality(items))

\* C20, when a response is taken: a created item is appended, an updated item
\* takes the place of the item with its id, a deleted item's id is filtered out,
\* a loaded result becomes the list, and a failure leaves the list as it was
C20_ListStep ==
    (request.stage = "responded" /\ request'.stage = "none") =>
        LET prev == app.items
            next == app'.items
            rows == request.response.rows
        IN  IF request.response.status # "ok" THEN next = prev
            ELSE CASE request.op = "createItem" ->
                        \E item \in rows : next = prev \o <<item>>
                   [] request.op = "updateItem" ->
                        \E item \in rows :
                           /\ Len(next) = Len(prev)
                           /\ \A i \in DOMAIN prev :
                                 next[i] = IF prev[i].id = item.id THEN item ELSE prev[i]
                   [] request.op = "deleteItem" ->
                        /\ \A i \in DOMAIN next : next[i].id # request.input.w
                        /\ \E keep \in SUBSET DOMAIN prev :
                              /\ \A i \in DOMAIN prev :
                                    i \in keep <=> prev[i].id # request.input.w
                              /\ Len(next) = Cardinality(keep)
                              /\ \A i \in keep :
                                    next[Cardinality({j \in keep : j <= i})] = prev[i]
                   [] OTHER -> Range(next) = rows /\ Len(next) = Cardinality(rows)

\* C20: for the one client, the only writer, whenever no request is in flight
\* its list holds exactly the rows of the table; the list follows each response
\* as said above.
C20_ListFollowsStore == []C20_ListIsStore /\ [][C20_ListStep]_vars

C20_Witness ==
    /\ Quiet
    /\ items_id_seq = 2
    /\ Len(app.items) = 1
    /\ app.items[1].id = 2
    /\ app.items[1].description = "d"
    /\ Range(app.items) = items
    /\ app.selectedItemForEdit # {}

\* C21, in every state: isLoading is true exactly while a request is in flight
C21_LoadingWhileInFlight ==
    pc = "client" => (app.isLoading <=> request.stage # "none")

\* C21, in every step: a request goes out only when none is in flight and
\* isLoading is false (the buttons that send one are disabled otherwise), and
\* isLoading is true from then on; the request in flight stays the same until
\* its response is taken; when it is taken, isLoading is false again, whether
\* the request succeeded or failed
C21_RequestStep ==
    /\ (request'.stage = "sent" /\ request' # request) =>
          (request.stage = "none" /\ ~app.isLoading /\ app'.isLoading)
    /\ request.stage = "sent" =>
          (/\ app'.isLoading
           /\ request'.stage \in {"sent", "responded"}
           /\ request'.op = request.op
           /\ request'.input = request.input)
    /\ request.stage = "responded" =>
          \/ request' = request /\ app'.isLoading
          \/ request'.stage = "none" /\ ~app'.isLoading

\* C21: the client has at most one request in flight; isLoading is true from
\* the start of loadItems, handleItemSubmit or handleDeleteItem until the
\* request settles, nothing that sends a request can be clicked meanwhile, and
\* isLoading is false again after every request, failed or not.
C21_OneRequestAtATime == []C21_LoadingWhileInFlight /\ [][C21_RequestStep]_vars

\* an updateItem is in flight with the dialog open, a value was typed into the
\* edit form after it was sent, and the create form holds a name
C21_Witness ==
    /\ pc = "client"
    /\ request.stage = "responded"
    /\ request.op = "updateItem"
    /\ request.response.status = "not_found"
    /\ app.isLoading
    /\ app.isDialogOpen
    /\ Len(app.items) = 1
    /\ forms.create.name \in Names
    /\ \E data \in forms.edit : request.input # WireUpdateItemInput(data)

\* C22, when the response to a createItem or updateItem is taken: after a
\* failure the forms, the dialog, the selected item and the list are as they
\* were; the create form is emptied only by a createItem that succeeded, and
\* then the dialog is left alone; the dialog is closed and the selection
\* cleared only by an updateItem that succeeded, and then the create form is
\* left alone
C22_SubmitStep ==
    (/\ request.stage = "responded"
     /\ request.op \in {"createItem", "updateItem"}
     /\ request'.stage = "none") =>
        LET ok == request.response.status = "ok"
            same == /\ app'.isDialogOpen = app.isDialogOpen
                    /\ app'.selectedItemForEdit = app.selectedItemForEdit
                    /\ forms'.edit = forms.edit
        IN  /\ ~ok => (forms' = forms /\ same /\ app'.items = app.items)
            /\ (ok /\ request.op = "createItem") =>
                  (forms'.create = EmptyFormData /\ same)
            /\ (ok /\ request.op = "updateItem") =>
                  /\ forms'.create = forms.create
                  /\ ~app'.isDialogOpen
                  /\ app'.selectedItemForEdit = {}
                  /\ forms'.edit = {}
            /\ forms'.create # forms.create => (ok /\ request.op = "createItem")
            /\ ~same => (ok /\ request.op = "updateItem")

\* C22: a form submission resets the form only when it was a create that
\* succeeded and closes the edit dialog only when the update succeeded; when
\* createItem or updateItem fails, the form data entered is kept, the dialog
\* stays as it is with its selected item (onFormSuccess is not called) and the
\* list is unchanged.
C22_ResetAndCloseOnlyOnSuccess == [][C22_SubmitStep]_vars

\* a createItem failed on a name already used, and its response is about to be
\* taken: another name was typed into the create form meanwhile, and the dialog
\* is open with a description typed into its form
C22_Witness ==
    /\ pc = "client"
    /\ request.stage = "responded"
    /\ request.op = "createItem"
    /\ request.form = "create"
    /\ request.response.status = "unique_violation"
    /\ forms.create.name \in Names
    /\ request.input.name # Some(forms.create.name)
    /\ app.isDialogOpen
    /\ \E item \in app.selectedItemForEdit :
          /\ forms.edit # {}
          /\ forms.edit # {InitialFormData(item)}

====
